---- MODULE Spec2Model ----
(***************************************************************************)
(* Model of mcp-toggle (src/index.mjs): the loader that flattens the four  *)
(* server mappings of ~/.claude.json into one list, the raw-key handler    *)
(* that mutates the list, and the writer that rebuilds the mappings.       *)
(***************************************************************************)
EXTENDS Naturals, Integers, Sequences, FiniteSets, TLC

\* ---------------------------------------------------------------- bounds
\* Largest number of server keys a generated document holds, over its four
\* mappings together.
MaxKeys == 3

\* The same for the documents with three names, which give lists of three.
MaxWideKeys == 3

\* ---------------------------------------------------------------- values
Names == {"a", "b"}

\* A server definition is opaque to the program.  A generated document gives
\* the definition of name n in mapping s (ua, ud, la, ld: user or local,
\* active or disabled) the value <<s, n>>, so that two
\* definitions of one document are equal only if they are the same one.
ConfigOf(s, n) == <<s, n>>

\* Paths are sequences of characters; BS is the backslash.
BS == "\\"
Cwds == { <<"/", "p">>, <<BS, "p">> }
ProjKeys == { <<"/", "p">>, <<BS, "p">> }

\* The keys the program never looks at, with their values, as one opaque
\* value: none, or some.
NoRest == "none"
TopRests == {NoRest, "numStartups"}
ProjRests == {NoRest, "allowedTools"}

\* A JSON object used as a name -> config mapping: whether the key that holds
\* it is there, and its own keys in insertion order.
AbsentObj == [present |-> FALSE, entries |-> <<>>]
EmptyObj == [present |-> TRUE, entries |-> <<>>]

\* A project entry that is not there.
NoEntry ==
  [present |-> FALSE, mcpServers |-> AbsentObj,
   _disabledMcpServers |-> AbsentObj, rest |-> NoRest]

\* The entry of a project other than the current one: it has servers of its
\* own, active and disabled.
OtherEntry ==
  [present |-> TRUE,
   mcpServers |-> [present |-> TRUE,
                   entries |-> <<[name |-> "a", config |-> <<"other", "a">>]>>],
   _disabledMcpServers |-> [present |-> TRUE,
                   entries |-> <<[name |-> "b", config |-> <<"other", "b">>]>>],
   rest |-> "allowedTools"]

NoProjects == [present |-> FALSE, table |-> [k \in ProjKeys |-> NoEntry]]

EmptyDoc ==
  [mcpServers |-> AbsentObj, _disabledMcpServers |-> AbsentObj,
   rest |-> NoRest, projects |-> NoProjects]

\* What the file can hold: nothing readable, text that is not JSON, or a JSON
\* value (null, false, 0, "", an array, an object).
FileKinds ==
  {"missing", "invalid", "null", "false", "zero", "emptystr", "array", "object"}

\* ------------------------------------------------------- JS object helpers
\* Object.keys(o): the keys in insertion order.
ObjectKeys(o) == [i \in 1..Len(o.entries) |-> o.entries[i].name]

KeySet(o) == {o.entries[i].name : i \in 1..Len(o.entries)}

\* o[name], for a key the object has.
ObjGet(o, name) ==
  (CHOOSE e \in {o.entries[i] : i \in 1..Len(o.entries)} : e.name = name).config

\* ObjSet that puts a new key first.
ObjSetFront(o, name, config) ==
  IF name \in KeySet(o)
    THEN [o EXCEPT !.entries =
            [i \in 1..Len(o.entries) |->
               IF o.entries[i].name = name
                 THEN [name |-> name, config |-> config]
                 ELSE o.entries[i]]]
    ELSE [o EXCEPT !.entries = <<[name |-> name, config |-> config]>> \o @]

\* o[name] = config on an object literal: a new key goes last, an existing
\* key keeps its place.
ObjSet(o, name, config) ==
  IF name \in KeySet(o)
    THEN [o EXCEPT !.entries =
            [i \in 1..Len(o.entries) |->
               IF o.entries[i].name = name
                 THEN [name |-> name, config |-> config]
                 ELSE o.entries[i]]]
    ELSE [o EXCEPT !.entries = Append(@, [name |-> name, config |-> config])]

\* `if (x.mcpServers)`: a missing key is undefined, any object is truthy.
Truthy(o) == o.present

\* ----------------------------------------------------------------- paths
\* process.cwd().replace(/\\/g, '/')
NormalizeCwd(path) == [i \in 1..Len(path) |-> IF path[i] = BS THEN "/" ELSE path[i]]

\* claudeJson.projects?.[cwd]: the entry, or one that is not there.
ProjectEntry(doc, key) ==
  IF doc.projects.present /\ key \in ProjKeys
    THEN doc.projects.table[key]
    ELSE NoEntry

\* ---------------------------------------------------------------- reader
\* readJSON: the parsed value, or null when the read or the parse throws.
\* The text "null" parses to null as well.
NullValue == [kind |-> "null", doc |-> EmptyDoc]

readJSON(f) ==
  IF f.kind \in {"missing", "invalid"} THEN NullValue ELSE f

\* !claudeJson: null, false, 0 and "" are falsy, arrays and objects are not.
IsFalsy(v) == v.kind \in {"null", "false", "zero", "emptystr"}

\* The document behind a parsed value; an array has none of the keys.
DocOf(v) == IF v.kind = "object" THEN v.doc ELSE EmptyDoc

\* ---------------------------------------------------------------- loader
\* LoadLoop without the `seen.has(name)` test.
RECURSIVE LoadLoopNoSeen(_, _, _, _, _, _)
LoadLoopNoSeen(keys, obj, source, enabled, checkSeen, acc) ==
  IF keys = <<>> THEN acc
  ELSE LET name == Head(keys)
           next == [servers |-> Append(acc.servers,
                                  [name |-> name, source |-> source,
                                   enabled |-> enabled,
                                   config |-> ObjGet(obj, name)]),
                    seen |-> acc.seen \cup {name}]
       IN LoadLoopNoSeen(Tail(keys), obj, source, enabled, checkSeen, next)

\* One `for (const name of Object.keys(obj))` loop of loadServers: push an
\* entry for each key and add it to `seen`; with checkSeen, only for a name
\* that is not in `seen` yet.  acc is [servers, seen].
RECURSIVE LoadLoop(_, _, _, _, _, _)
LoadLoop(keys, obj, source, enabled, checkSeen, acc) ==
  IF keys = <<>> THEN acc
  ELSE LET name == Head(keys)
           next == IF checkSeen /\ name \in acc.seen
                     THEN acc
                     ELSE [servers |-> Append(acc.servers,
                                        [name |-> name, source |-> source,
                                         enabled |-> enabled,
                                         config |-> ObjGet(obj, name)]),
                           seen |-> acc.seen \cup {name}]
       IN LoadLoop(Tail(keys), obj, source, enabled, checkSeen, next)

\* One guarded block of loadServers: `if (x) { for ... }`.
LoadFrom(obj, source, enabled, checkSeen, acc) ==
  IF Truthy(obj)
    THEN LoadLoop(ObjectKeys(obj), obj, source, enabled, checkSeen, acc)
    ELSE acc

\* loadServers with one `seen` set per scope: the local loops do not see the
\* names of the global mappings.
loadServersSeenPerScope(claudeJson, path) ==
  LET doc == DocOf(claudeJson)
      acc0 == [servers |-> <<>>, seen |-> {}]
      acc1 == LoadFrom(doc.mcpServers, "user", TRUE, FALSE, acc0)
      acc2 == LoadFrom(doc._disabledMcpServers, "user", FALSE, TRUE, acc1)
      cwd == NormalizeCwd(path)
      projectEntry == ProjectEntry(doc, cwd)
      acc3 == LoadFrom(projectEntry.mcpServers, "local", TRUE, TRUE,
                       [acc2 EXCEPT !.seen = {}])
      acc4 == LoadFrom(projectEntry._disabledMcpServers, "local", FALSE, TRUE, acc3)
  IN acc4.servers

\* loadServers, for a value that was read: the list it returns.
loadServers(claudeJson, path) ==
  LET doc == DocOf(claudeJson)
      acc0 == [servers |-> <<>>, seen |-> {}]
      acc1 == LoadFrom(doc.mcpServers, "user", TRUE, FALSE, acc0)
      acc2 == LoadFrom(doc._disabledMcpServers, "user", FALSE, TRUE, acc1)
      cwd == NormalizeCwd(path)
      projectEntry == ProjectEntry(doc, cwd)
      acc3 == LoadFrom(projectEntry.mcpServers, "local", TRUE, TRUE, acc2)
      acc4 == LoadFrom(projectEntry._disabledMcpServers, "local", FALSE, TRUE, acc3)
  IN acc4.servers

\* ---------------------------------------------------------------- writer
\* The two object literals one scope of saveState fills: [active, disabled].
RECURSIVE Rebuild(_, _, _)
Rebuild(list, source, acc) ==
  IF list = <<>> THEN acc
  ELSE LET s == Head(list)
           next == IF s.source # source THEN acc
                   ELSE IF s.enabled
                     THEN [acc EXCEPT !.active = ObjSet(@, s.name, s.config)]
                     ELSE [acc EXCEPT !.disabled = ObjSet(@, s.name, s.config)]
       IN Rebuild(Tail(list), source, next)

\* AssignMappings that deletes the disabled key whatever it would hold.
AssignMappingsNoDisabled(target, maps) ==
  [target EXCEPT !.mcpServers = maps.active,
                 !._disabledMcpServers = AbsentObj]

\* AssignMappings that assigns the disabled mapping even when it is empty.
AssignMappingsKeepsEmpty(target, maps) ==
  [target EXCEPT !.mcpServers = maps.active,
                 !._disabledMcpServers = maps.disabled]

\* Assign the active mapping; assign the disabled one if it has keys and
\* delete the key otherwise.
AssignMappings(target, maps) ==
  [target EXCEPT !.mcpServers = maps.active,
                 !._disabledMcpServers =
                    IF Len(maps.disabled.entries) > 0 THEN maps.disabled
                                                      ELSE AbsentObj]

\* SavedDoc without the local-scoped rebuild.
SavedDocUserOnly(doc, list, path) ==
  AssignMappings(doc, Rebuild(list, "user",
                              [active |-> EmptyObj, disabled |-> EmptyObj]))

\* SavedDoc that looks the project entry up under process.cwd() as it is.
SavedDocRawCwd(doc, list, path) ==
  LET user == Rebuild(list, "user", [active |-> EmptyObj, disabled |-> EmptyObj])
      doc1 == AssignMappings(doc, user)
      projectEntry == ProjectEntry(doc1, path)
  IN IF projectEntry.present
       THEN LET local == Rebuild(list, "local",
                                 [active |-> EmptyObj, disabled |-> EmptyObj])
            IN [doc1 EXCEPT !.projects.table[path] = AssignMappings(@, local)]
       ELSE doc1

\* SavedDoc that makes the project entry when the document has none.
SavedDocCreatesEntry(doc, list, path) ==
  LET cwd == NormalizeCwd(path)
      user == Rebuild(list, "user", [active |-> EmptyObj, disabled |-> EmptyObj])
      doc1 == AssignMappings(doc, user)
      local == Rebuild(list, "local", [active |-> EmptyObj, disabled |-> EmptyObj])
  IN [doc1 EXCEPT !.projects.present = TRUE,
                  !.projects.table[cwd] =
                     AssignMappings([@ EXCEPT !.present = TRUE], local)]

\* SavedDoc that adds the list to the mappings it read instead of starting
\* from empty object literals.
SavedDocMerges(doc, list, path) ==
  LET cwd == NormalizeCwd(path)
      user == Rebuild(list, "user",
                      [active |-> [doc.mcpServers EXCEPT !.present = TRUE],
                       disabled |-> [doc._disabledMcpServers EXCEPT !.present = TRUE]])
      doc1 == AssignMappings(doc, user)
      projectEntry == ProjectEntry(doc1, cwd)
  IN IF projectEntry.present
       THEN LET local == Rebuild(list, "local",
                           [active |-> [projectEntry.mcpServers EXCEPT !.present = TRUE],
                            disabled |-> [projectEntry._disabledMcpServers
                                            EXCEPT !.present = TRUE]])
            IN [doc1 EXCEPT !.projects.table[cwd] = AssignMappings(@, local)]
       ELSE doc1

\* The document saveState serializes, from the one it read.
SavedDoc(doc, list, path) ==
  LET cwd == NormalizeCwd(path)
      user == Rebuild(list, "user", [active |-> EmptyObj, disabled |-> EmptyObj])
      doc1 == AssignMappings(doc, user)
      projectEntry == ProjectEntry(doc1, cwd)
  IN IF projectEntry.present
       THEN LET local == Rebuild(list, "local",
                                 [active |-> EmptyObj, disabled |-> EmptyObj])
            IN [doc1 EXCEPT !.projects.table[cwd] = AssignMappings(@, local)]
       ELSE doc1

\* JSON.stringify(claudeJson, null, 2) + '\n', as the value the text parses
\* back to: an array keeps none of the properties set on it.
Stringify(kind, doc) ==
  IF kind = "object" THEN [kind |-> "object", doc |-> doc]
                     ELSE [kind |-> kind, doc |-> EmptyDoc]

\* ------------------------------------------------------------- documents
\* Sequences of distinct names: the key orders an object can have.
KeyOrders ==
  {ks \in UNION {[1..k -> Names] : k \in 0..Cardinality(Names)} :
     \A i, j \in 1..Len(ks) : i # j => ks[i] # ks[j]}

\* The mapping of source s with the keys ks.
ObjOf(s, ks) ==
  [present |-> TRUE,
   entries |-> [i \in 1..Len(ks) |-> [name |-> ks[i], config |-> ConfigOf(s, ks[i])]]]

\* A key that is missing, or a mapping of source s.
ObjsOf(s) == {AbsentObj} \cup {ObjOf(s, ks) : ks \in KeyOrders}

\* The entry of the current project: missing, or one with its two mappings.
CwdEntries ==
  {NoEntry} \cup
  [present : {TRUE}, mcpServers : ObjsOf("la"),
   _disabledMcpServers : ObjsOf("ld"), rest : ProjRests]

\* The project table of a run in directory `path`: the current project under
\* the normalized path, another project, or not there, under any other key.
ProjectTables(path) ==
  {NoProjects} \cup
  [present : {TRUE},
   table : {t \in [ProjKeys -> CwdEntries \cup {OtherEntry}] :
              \A k \in ProjKeys :
                 IF k = NormalizeCwd(path) THEN t[k] \in CwdEntries
                                           ELSE t[k] \in {NoEntry, OtherEntry}}]

NumKeys(doc, path) ==
  Len(doc.mcpServers.entries) + Len(doc._disabledMcpServers.entries)
  + Len(ProjectEntry(doc, NormalizeCwd(path)).mcpServers.entries)
  + Len(ProjectEntry(doc, NormalizeCwd(path))._disabledMcpServers.entries)

Docs(path) ==
  {d \in [mcpServers : ObjsOf("ua"), _disabledMcpServers : ObjsOf("ud"),
          rest : TopRests, projects : ProjectTables(path)] :
     NumKeys(d, path) <= MaxKeys}

Files(path) ==
  [kind : FileKinds \ {"object"}, doc : {EmptyDoc}]
  \cup [kind : {"object"}, doc : Docs(path)]

\* ------------------------------------------------------------------ keys
\* One chunk delivered to the 'data' handler, as its characters.
ETX == "\\x03"
ESC == "\\x1b"
CR == "\\r"
LF == "\\n"
Keys ==
  { <<ETX>>, <<ESC>>, <<CR>>, <<LF>>,
    <<ESC, "[", "A">>, <<"k">>, <<ESC, "[", "B">>, <<"j">>,
    <<" ">>, <<"a">>, <<"n">>,
    <<"x">>, <<ESC, "[", "C">>, <<"a", "a">>, <<ESC, ESC>> }

\* ----------------------------------------------------------------- state
VARIABLES
  file,        \* content of ~/.claude.json
  path,        \* process.cwd()
  isTTY,       \* process.stdin.isTTY
  servers,     \* the list built by loadServers
  cursor,      \* index of the highlighted entry, from 0
  pc,          \* where the run is
  exitCode,    \* argument of process.exit, -1 while running
  rawMode,     \* process.stdin.setRawMode
  file0,       \* history: the file when the run began
  loaded,      \* history: the list as loadServers returned it
  keySeen,     \* history: the 'data' handler ran
  saveCalls,   \* history: calls of saveState
  writes,      \* history: calls of writeFileSync
  lastFlagKey, \* history: the last of space, a, n that was handled
  changed,     \* history: indexes of the entries whose flag ever changed
  exitKey      \* history: the key whose handler called cleanup

vars == <<file, path, isTTY, servers, cursor, pc, exitCode, rawMode, file0,
          loaded, keySeen, saveCalls, writes, lastFlagKey, changed, exitKey>>

hist == <<file0, loaded, keySeen, saveCalls, writes, lastFlagKey, changed, exitKey>>

Init ==
  /\ path \in Cwds
  /\ file \in Files(path)
  /\ isTTY \in BOOLEAN
  /\ servers = <<>>
  /\ cursor = 0
  /\ pc = "load"
  /\ exitCode = -1
  /\ rawMode = FALSE
  /\ file0 = file
  /\ loaded = <<>>
  /\ keySeen = FALSE
  /\ saveCalls = 0
  /\ writes = 0
  /\ lastFlagKey = <<>>
  /\ changed = {}
  /\ exitKey = <<>>

\* process.exit(code) at a point of the run named by `at`.
Exit(at, code) ==
  /\ pc' = at
  /\ exitCode' = code

\* const servers = loadServers(): exit 1 when the file cannot be read.
LoadServers ==
  /\ pc = "load"
  /\ LET claudeJson == readJSON(file)
     IN IF IsFalsy(claudeJson)
          THEN /\ Exit("ConfigUnreadable", 1)
               /\ UNCHANGED <<servers, loaded>>
          ELSE /\ servers' = loadServers(claudeJson, path)
               /\ loaded' = servers'
               /\ pc' = "check"
               /\ UNCHANGED exitCode
  /\ UNCHANGED <<file, path, isTTY, cursor, rawMode, file0, keySeen,
                 saveCalls, writes, lastFlagKey, changed, exitKey>>

\* if (servers.length === 0) exit 1; let cursor = 0
CheckEmpty ==
  /\ pc = "check"
  /\ IF Len(servers) = 0
       THEN Exit("EmptyConfiguration", 1) /\ UNCHANGED cursor
       ELSE pc' = "start" /\ cursor' = 0 /\ UNCHANGED exitCode
  /\ UNCHANGED <<file, path, isTTY, servers, rawMode>>
  /\ UNCHANGED hist

\* start() without the isTTY test.
StartNoTTYTest ==
  /\ pc = "start"
  /\ rawMode' = TRUE /\ pc' = "Running" /\ UNCHANGED exitCode
  /\ UNCHANGED <<file, path, isTTY, servers, cursor>>
  /\ UNCHANGED hist

\* start(): exit 1 without a terminal, else raw mode and the first render.
Start ==
  /\ pc = "start"
  /\ IF ~isTTY
       THEN Exit("UnsupportedTerminal", 1) /\ UNCHANGED rawMode
       ELSE rawMode' = TRUE /\ pc' = "Running" /\ UNCHANGED exitCode
  /\ UNCHANGED <<file, path, isTTY, servers, cursor>>
  /\ UNCHANGED hist

\* saveState without the `if (!claudeJson) return`: a failed read is taken
\* for an empty document.
saveStateNoReturn(list) ==
  LET claudeJson == readJSON(file)
  IN /\ saveCalls' = saveCalls + 1
     /\ file' = Stringify("object", SavedDoc(DocOf(claudeJson), list, path))
     /\ writes' = writes + 1

\* saveState(servers): read the file again, return if that fails, else
\* rebuild the mappings in the document just read and write it back.
saveState(list) ==
  LET claudeJson == readJSON(file)
  IN /\ saveCalls' = saveCalls + 1
     /\ IF IsFalsy(claudeJson)
          THEN UNCHANGED <<file, writes>>
          ELSE /\ file' = Stringify(claudeJson.kind,
                                    SavedDoc(DocOf(claudeJson), list, path))
               /\ writes' = writes + 1

\* cleanup that saves whatever its argument.
cleanupAlwaysSaves(save) ==
  /\ saveState(servers)
  /\ rawMode' = FALSE
  /\ Exit(IF save THEN "Saving" ELSE "Cancelled", 0)

\* cleanup on the confirm path without process.exit: the handler stays
\* installed.
cleanupNoExitOnSave(save) ==
  /\ IF save
       THEN saveState(servers)
       ELSE UNCHANGED <<file, saveCalls, writes>>
  /\ rawMode' = FALSE
  /\ IF save THEN UNCHANGED <<pc, exitCode>> ELSE Exit("Cancelled", 0)

\* cleanup(save): save if asked, leave raw mode, process.exit(0).
cleanup(save) ==
  /\ IF save
       THEN saveState(servers)
       ELSE UNCHANGED <<file, saveCalls, writes>>
  /\ rawMode' = FALSE
  /\ Exit(IF save THEN "Saving" ELSE "Cancelled", 0)

\* MoveUp as `(cursor - 1) % servers.length`: in JavaScript the remainder of
\* -1 is -1.
MoveUpNoWrap(c, n) == IF c - 1 < 0 THEN c - 1 ELSE (c - 1) % n

\* cursor = (cursor - 1 + servers.length) % servers.length
MoveUp(c, n) == (c - 1 + n) % n

\* cursor = (cursor + 1) % servers.length
MoveDown(c, n) == (c + 1) % n

\* Toggle that flips the entry after the one at the cursor.
ToggleOffByOne(list, c) == [list EXCEPT ![((c + 1) % Len(list)) + 1].enabled = ~@]

\* servers[cursor].enabled = !servers[cursor].enabled
Toggle(list, c) == [list EXCEPT ![c + 1].enabled = ~@]

\* SetAll that assigns to the user-scoped entries only.
SetAllUserOnly(list, value) ==
  [i \in 1..Len(list) |->
     IF list[i].source = "user" THEN [list[i] EXCEPT !.enabled = value]
                                ELSE list[i]]

\* for (const s of servers) s.enabled = value
SetAll(list, value) == [i \in 1..Len(list) |-> [list[i] EXCEPT !.enabled = value]]

\* The keys that assign to an enabled flag.
FlagKeys == { <<" ">>, <<"a">>, <<"n">> }

\* The handler with the lone-Esc test as `key[0] === ESC`: every escape
\* sequence cancels.
OnDataEscPrefix(key) ==
  /\ pc = "Running"
  /\ keySeen' = TRUE
  /\ IF key = <<ETX>> THEN
       cleanup(FALSE) /\ UNCHANGED <<servers, cursor>>
     ELSE IF Head(key) = ESC THEN
       cleanup(FALSE) /\ UNCHANGED <<servers, cursor>>
     ELSE IF key = <<CR>> \/ key = <<LF>> THEN
       cleanup(TRUE) /\ UNCHANGED <<servers, cursor>>
     ELSE
       /\ UNCHANGED <<file, saveCalls, writes, rawMode, pc, exitCode>>
       /\ IF key = <<ESC, "[", "A">> \/ key = <<"k">> THEN
            cursor' = MoveUp(cursor, Len(servers)) /\ UNCHANGED servers
          ELSE IF key = <<ESC, "[", "B">> \/ key = <<"j">> THEN
            cursor' = MoveDown(cursor, Len(servers)) /\ UNCHANGED servers
          ELSE IF key = <<" ">> THEN
            servers' = Toggle(servers, cursor) /\ UNCHANGED cursor
          ELSE IF key = <<"a">> THEN
            servers' = SetAll(servers, TRUE) /\ UNCHANGED cursor
          ELSE IF key = <<"n">> THEN
            servers' = SetAll(servers, FALSE) /\ UNCHANGED cursor
          ELSE
            UNCHANGED <<servers, cursor>>
  /\ lastFlagKey' = IF key \in FlagKeys THEN key ELSE lastFlagKey
  /\ changed' = changed \cup
                 {i \in 1..Len(servers) : servers'[i].enabled # servers[i].enabled}
  /\ exitKey' = IF pc' # "Running" THEN key ELSE exitKey
  /\ UNCHANGED <<path, isTTY, file0, loaded>>

\* The 'data' handler: the first test that matches returns.
OnData(key) ==
  /\ pc = "Running"
  /\ keySeen' = TRUE
  /\ IF key = <<ETX>> THEN
       cleanup(FALSE) /\ UNCHANGED <<servers, cursor>>
     ELSE IF key = <<ESC>> /\ Len(key) = 1 THEN
       cleanup(FALSE) /\ UNCHANGED <<servers, cursor>>
     ELSE IF key = <<CR>> \/ key = <<LF>> THEN
       cleanup(TRUE) /\ UNCHANGED <<servers, cursor>>
     ELSE
       /\ UNCHANGED <<file, saveCalls, writes, rawMode, pc, exitCode>>
       /\ IF key = <<ESC, "[", "A">> \/ key = <<"k">> THEN
            cursor' = MoveUp(cursor, Len(servers)) /\ UNCHANGED servers
          ELSE IF key = <<ESC, "[", "B">> \/ key = <<"j">> THEN
            cursor' = MoveDown(cursor, Len(servers)) /\ UNCHANGED servers
          ELSE IF key = <<" ">> THEN
            servers' = Toggle(servers, cursor) /\ UNCHANGED cursor
          ELSE IF key = <<"a">> THEN
            servers' = SetAll(servers, TRUE) /\ UNCHANGED cursor
          ELSE IF key = <<"n">> THEN
            servers' = SetAll(servers, FALSE) /\ UNCHANGED cursor
          ELSE
            UNCHANGED <<servers, cursor>>
  /\ lastFlagKey' = IF key \in FlagKeys THEN key ELSE lastFlagKey
  /\ changed' = changed \cup
                 {i \in 1..Len(servers) : servers'[i].enabled # servers[i].enabled}
  /\ exitKey' = IF pc' # "Running" THEN key ELSE exitKey
  /\ UNCHANGED <<path, isTTY, file0, loaded>>

Data == \E key \in Keys : OnData(key)

Next == LoadServers \/ CheckEmpty \/ Start \/ Data

Spec == Init /\ [][Next]_vars

\* ------------------------------------------------- another writer (5.)
\* The file is read at load and read again at save, with no lock: another
\* program can replace it in between.  What it may leave there: nothing, text
\* that is not JSON, an array, or a document with servers of its own (their
\* definitions are <<"ext", n>>), without or with an entry for this project.
ExtObj(ks) ==
  [present |-> TRUE,
   entries |-> [i \in 1..Len(ks) |-> [name |-> ks[i], config |-> <<"ext", ks[i]>>]]]

ExtDocNoProject ==
  [mcpServers |-> ExtObj(<<"b">>), _disabledMcpServers |-> ExtObj(<<"a">>),
   rest |-> "numStartups", projects |-> NoProjects]

ExtDocWithProject(p) ==
  [mcpServers |-> ExtObj(<<"a">>), _disabledMcpServers |-> AbsentObj,
   rest |-> NoRest,
   projects |->
     [present |-> TRUE,
      table |-> [k \in ProjKeys |->
                   IF k = NormalizeCwd(p)
                     THEN [present |-> TRUE, mcpServers |-> ExtObj(<<"b">>),
                           _disabledMcpServers |-> ExtObj(<<"a">>),
                           rest |-> "allowedTools"]
                     ELSE OtherEntry]]]

ExtFiles(p) ==
  [kind : {"missing", "invalid", "array"}, doc : {EmptyDoc}]
  \cup [kind : {"object"}, doc : {ExtDocNoProject, ExtDocWithProject(p)}]

\* Another program writes the file while the run is between its two reads.
ExternalWrite ==
  /\ pc \in {"check", "start", "Running"}
  /\ \E f \in ExtFiles(path) : f # file /\ file' = f
  /\ UNCHANGED <<path, isTTY, servers, cursor, pc, exitCode, rawMode>>
  /\ UNCHANGED hist

\* The runs followed with another writer: on a terminal, from a document
\* whose keys are the server mappings only.
InitExt ==
  /\ Init
  /\ isTTY
  /\ file.kind = "object"
  /\ file.doc.rest = NoRest
  /\ \A k \in ProjKeys : file.doc.projects.table[k].rest = NoRest

NextExt == Next \/ ExternalWrite

SpecExt == InitExt /\ [][NextExt]_vars

\* ------------------------------------------------- lists of three entries
\* Documents over three server names, for what needs a list longer than two
\* (the cursor going up differs from the cursor going down): the two global
\* mappings and the active mapping of the current project.
WideNames == {"a", "b", "c"}

WideKeyOrders ==
  {ks \in UNION {[1..k -> WideNames] : k \in 0..Cardinality(WideNames)} :
     \A i, j \in 1..Len(ks) : i # j => ks[i] # ks[j]}

WideObjs(s) == {ObjOf(s, ks) : ks \in WideKeyOrders}

WidePath == <<"/", "p">>

WideTables ==
  {[k \in ProjKeys |-> IF k = WidePath THEN e ELSE NoEntry] :
     e \in [present : {TRUE}, mcpServers : WideObjs("la"),
            _disabledMcpServers : {AbsentObj}, rest : {NoRest}]}

WideDocs ==
  {d \in [mcpServers : WideObjs("ua"), _disabledMcpServers : WideObjs("ud"),
          rest : {NoRest},
          projects : [present : {TRUE}, table : WideTables]] :
     NumKeys(d, WidePath) <= MaxWideKeys}

InitWide ==
  /\ path = WidePath
  /\ file \in [kind : {"object"}, doc : WideDocs]
  /\ isTTY = TRUE
  /\ servers = <<>>
  /\ cursor = 0
  /\ pc = "load"
  /\ exitCode = -1
  /\ rawMode = FALSE
  /\ file0 = file
  /\ loaded = <<>>
  /\ keySeen = FALSE
  /\ saveCalls = 0
  /\ writes = 0
  /\ lastFlagKey = <<>>
  /\ changed = {}
  /\ exitKey = <<>>

SpecWide == InitWide /\ [][Next]_vars

\* ------------------------------------------------------------ properties
\* A mapping as the set of its <<name, config>> pairs; a missing key has none.
AsMap(o) == {<<o.entries[i].name, o.entries[i].config>> : i \in 1..Len(o.entries)}

\* The four mappings of a file, by scope.
ActiveOf(f, scope) ==
  IF scope = "user" THEN DocOf(f).mcpServers
  ELSE ProjectEntry(DocOf(f), NormalizeCwd(path)).mcpServers

DisabledOf(f, scope) ==
  IF scope = "user" THEN DocOf(f)._disabledMcpServers
  ELSE ProjectEntry(DocOf(f), NormalizeCwd(path))._disabledMcpServers

Scopes == {"user", "local"}

\* The <<name, config>> pairs of the entries of one scope of a list.
PairsOf(list, scope) ==
  {<<list[i].name, list[i].config>> :
     i \in {j \in 1..Len(list) : list[j].source = scope}}

HasScope(list, scope) == \E i \in 1..Len(list) : list[i].source = scope

\* C1: after a run that ends in confirm, for each scope the active and the
\* disabled mapping of the saved file hold, together, exactly the names of the
\* entries loaded for that scope, each with the config it was loaded with, and
\* no name is in both.
C1_SaveReconstructsLoaded ==
  pc = "Saving" =>
    \A scope \in Scopes :
      /\ AsMap(ActiveOf(file, scope)) \cup AsMap(DisabledOf(file, scope))
           = PairsOf(loaded, scope)
      /\ KeySet(ActiveOf(file, scope)) \cap KeySet(DisabledOf(file, scope)) = {}

C1_Witness ==
  /\ pc = "Saving"
  /\ writes = 1
  /\ HasScope(loaded, "user")
  /\ HasScope(loaded, "local")
  /\ changed # {}
  /\ file # file0

\* C2: a run that presses no flag-changing key and confirms saves a document
\* whose four mappings equal, as name -> config maps, those of the document
\* it started from.
C2_RoundTrip ==
  (pc = "Saving" /\ lastFlagKey = <<>>) =>
    \A scope \in Scopes :
      /\ AsMap(ActiveOf(file, scope)) = AsMap(ActiveOf(file0, scope))
      /\ AsMap(DisabledOf(file, scope)) = AsMap(DisabledOf(file0, scope))

\* C3: after save every entry is a key of its scope's active mapping if its
\* flag was true at confirm and of its scope's disabled mapping if it was
\* false; an entry whose flag never changed is in the mapping that matches
\* the flag it was loaded with.  Local entries included.
C3_SavedWhereFlagSays ==
  pc = "Saving" =>
    \A i \in 1..Len(servers) :
      LET s == servers[i]
      IN /\ s.enabled => s.name \in KeySet(ActiveOf(file, s.source))
         /\ ~s.enabled => s.name \in KeySet(DisabledOf(file, s.source))
         /\ (i \notin changed /\ loaded[i].enabled) =>
               s.name \in KeySet(ActiveOf(file, s.source))
         /\ (i \notin changed /\ ~loaded[i].enabled) =>
               s.name \in KeySet(DisabledOf(file, s.source))

C3_Witness ==
  /\ pc = "Saving"
  /\ Len(servers) = 2
  /\ servers[1].source = "user" /\ servers[2].source = "local"
  /\ changed = {2}
  /\ ~servers[2].enabled /\ loaded[2].enabled
  /\ ~loaded[1].enabled

\* C4: a run that ends with lone Esc or Ctrl-C leaves the file as it was when
\* the run began and never calls saveState.
C4_CancelKeepsFile ==
  pc = "Cancelled" => (file = file0 /\ saveCalls = 0 /\ writes = 0)

C4_Witness ==
  /\ pc = "Cancelled"
  /\ exitKey = <<ESC>>
  /\ changed # {}
  /\ servers # loaded

\* C5: save leaves alone every top-level key but the two mappings and the
\* project table, every project entry but the one of the normalized cwd, and
\* in that one every key but its two mappings; it adds and removes no project
\* entry.
C5_SaveLeavesOtherKeys ==
  pc = "Saving" =>
    /\ file.kind = file0.kind
    /\ file.doc.rest = file0.doc.rest
    /\ file.doc.projects.present = file0.doc.projects.present
    /\ \A k \in ProjKeys :
         IF k = NormalizeCwd(path)
           THEN /\ file.doc.projects.table[k].present
                     = file0.doc.projects.table[k].present
                /\ file.doc.projects.table[k].rest
                     = file0.doc.projects.table[k].rest
           ELSE file.doc.projects.table[k] = file0.doc.projects.table[k]

C5_Witness ==
  /\ pc = "Saving"
  /\ file # file0
  /\ file0.doc.rest # NoRest
  /\ path # NormalizeCwd(path)
  /\ file0.doc.projects.table[path] = OtherEntry
  /\ file0.doc.projects.table[NormalizeCwd(path)].present
  /\ file0.doc.projects.table[NormalizeCwd(path)].rest # NoRest
  /\ file.doc.projects.table[NormalizeCwd(path)]
       # file0.doc.projects.table[NormalizeCwd(path)]

\* The keys of one source mapping as list entries, in key order.
Candidates(o, source, enabled) ==
  [i \in 1..Len(o.entries) |->
     [name |-> o.entries[i].name, source |-> source, enabled |-> enabled,
      config |-> o.entries[i].config]]

\* The entries of a sequence whose name no earlier entry has.
RECURSIVE FirstSeen(_, _)
FirstSeen(cands, n) ==
  IF n = 0 THEN <<>>
  ELSE IF \E j \in 1..(n - 1) : cands[j].name = cands[n].name
         THEN FirstSeen(cands, n - 1)
         ELSE Append(FirstSeen(cands, n - 1), cands[n])

\* The reference list of a file: global-active, global-disabled, local-active,
\* local-disabled, first-seen wins.
FirstSeenWins(f) ==
  LET all == Candidates(ActiveOf(f, "user"), "user", TRUE)
             \o Candidates(DisabledOf(f, "user"), "user", FALSE)
             \o Candidates(ActiveOf(f, "local"), "local", TRUE)
             \o Candidates(DisabledOf(f, "local"), "local", FALSE)
  IN FirstSeen(all, Len(all))

Loaded == pc \notin {"load", "ConfigUnreadable"}

\* C6: the list the loader builds is the reference first-seen-wins list of
\* the file, in visiting order, and it has no local entry when the document
\* has no project entry for the cwd.
C6_LoaderIsFirstSeenWins ==
  Loaded =>
    /\ loaded = FirstSeenWins(file0)
    /\ ~ProjectEntry(DocOf(file0), NormalizeCwd(path)).present
         => ~HasScope(loaded, "local")

C6_Witness ==
  /\ Loaded
  /\ Len(loaded) = 2
  /\ loaded[1].source = "user" /\ ~loaded[1].enabled
  /\ loaded[2].source = "local" /\ ~loaded[2].enabled
  /\ loaded[1].name \in KeySet(ActiveOf(file0, "local"))

\* C7: a name in both the active and the disabled mapping of one scope gives
\* exactly one entry of that scope, enabled, with the active mapping's
\* config; for the local scope whatever the global mappings hold.
C7_DedupPerScope ==
  Loaded =>
    \A scope \in Scopes :
      \A n \in KeySet(ActiveOf(file0, scope)) \cap KeySet(DisabledOf(file0, scope)) :
        LET hits == {i \in 1..Len(loaded) :
                       loaded[i].name = n /\ loaded[i].source = scope}
        IN /\ Cardinality(hits) = 1
           /\ \A i \in hits :
                /\ loaded[i].enabled
                /\ loaded[i].config = ObjGet(ActiveOf(file0, scope), n)

\* C8: when the last flag-changing key before confirm is 'a', the saved
\* document has no disabled key at the top level and none in the cwd project
\* entry, and every entry's name is in its scope's active mapping.
C8_AllOnThenSave ==
  (pc = "Saving" /\ lastFlagKey = <<"a">>) =>
    /\ ~DisabledOf(file, "user").present
    /\ ~DisabledOf(file, "local").present
    /\ \A i \in 1..Len(servers) :
         servers[i].name \in KeySet(ActiveOf(file, servers[i].source))

C8_Witness ==
  /\ pc = "Saving"
  /\ lastFlagKey = <<"a">>
  /\ \E i, j \in 1..Len(loaded) :
       /\ loaded[i].source = "user" /\ ~loaded[i].enabled
       /\ loaded[j].source = "local" /\ ~loaded[j].enabled
  /\ DisabledOf(file0, "user").present
  /\ DisabledOf(file0, "local").present

\* The file cannot be read or parsed.
Unreadable(f) == f.kind \in {"missing", "invalid"}

\* C9: a file that cannot be read ends the run with exit code 1; else a file
\* with no entries does; else a missing terminal does.  In each case the run
\* never is Running, handles no key, never enables raw mode and never writes
\* the file.
C9_FatalStartup ==
  /\ Unreadable(file0) =>
       /\ pc \in {"load", "ConfigUnreadable"}
       /\ pc # "load" => exitCode = 1
  /\ (~Unreadable(file0) /\ FirstSeenWins(file0) = <<>>) =>
       /\ pc \in {"load", "check", "ConfigUnreadable", "EmptyConfiguration"}
       /\ pc \notin {"load", "check"} => exitCode = 1
  /\ (~Unreadable(file0) /\ FirstSeenWins(file0) # <<>> /\ ~isTTY) =>
       /\ pc \in {"load", "check", "start", "UnsupportedTerminal"}
       /\ pc \notin {"load", "check", "start"} => exitCode = 1
  /\ exitCode = 1 =>
       /\ pc \in {"ConfigUnreadable", "EmptyConfiguration", "UnsupportedTerminal"}
       /\ ~keySeen /\ ~rawMode /\ writes = 0 /\ saveCalls = 0 /\ file = file0

C9_Witness ==
  /\ pc = "UnsupportedTerminal"
  /\ exitCode = 1
  /\ Len(servers) > 0

\* C10: the run leaves Running only for Saving, on Enter, or for Cancelled,
\* on lone Esc or Ctrl-C; both exit with code 0; after either nothing changes
\* the cursor, a flag or the file; the file is written at most once, and only
\* by a confirm.
C10_StepOk ==
  /\ (pc = "Running" /\ pc' # "Running") =>
       \/ pc' = "Saving" /\ exitKey' \in { <<CR>>, <<LF>> }
       \/ pc' = "Cancelled" /\ exitKey' \in { <<ESC>>, <<ETX>> }
  /\ pc \in {"Saving", "Cancelled"} =>
       UNCHANGED <<pc, cursor, servers, file, exitCode, writes>>
  /\ writes' # writes => pc' = "Saving"

C10_StateOk ==
  /\ pc \in {"Saving", "Cancelled"} => exitCode = 0
  /\ pc = "Running" => exitCode = -1
  /\ writes <= 1
  /\ writes = 1 => pc = "Saving"

C10_RunningToTerminal == [][C10_StepOk]_vars /\ []C10_StateOk

C10_Witness ==
  /\ pc = "Saving"
  /\ exitKey = <<LF>>
  /\ writes = 1
  /\ exitCode = 0
  /\ cursor = 1


\* Some entry of the scope is disabled.
AnyDisabled(list, scope) ==
  \E i \in 1..Len(list) : list[i].source = scope /\ ~list[i].enabled

\* The scope is one saveState writes into the document f.
Written(f, scope) ==
  scope = "user" \/ ProjectEntry(DocOf(f), NormalizeCwd(path)).present

\* C11: after save, in each scope that is written the active key is there,
\* with {} when no entry of the scope is enabled, and the disabled key is
\* there exactly when an entry of the scope is disabled at confirm; a
\* disabled mapping that is there is never {}.
C11_KeyPresence ==
  (pc = "Saving" /\ writes = 1) =>
    \A scope \in Scopes :
      Written(file, scope) =>
        /\ ActiveOf(file, scope).present
        /\ DisabledOf(file, scope).present <=> AnyDisabled(servers, scope)
        /\ DisabledOf(file, scope).present =>
             DisabledOf(file, scope).entries # <<>>

C11_Witness ==
  /\ pc = "Saving"
  /\ writes = 1
  /\ ~ActiveOf(file0, "user").present
  /\ HasScope(servers, "user")
  /\ ActiveOf(file, "user") = EmptyObj
  /\ DisabledOf(file0, "local").present
  /\ HasScope(servers, "local")
  /\ ~DisabledOf(file, "local").present


\* The step of the handler that confirms.
ConfirmStep == pc = "Running" /\ pc' = "Saving"

\* The <<name, config>> pairs of the entries of a scope with a given flag.
FlaggedPairs(list, scope, flag) ==
  {<<list[i].name, list[i].config>> :
     i \in {j \in 1..Len(list) : list[j].source = scope /\ list[j].enabled = flag}}

\* C12: when the document read at save has no project table, or no entry for
\* the normalized cwd, save adds none: the project table is written back as
\* it was read, the top-level mappings hold the user entries only, and the
\* local entries of the list are in no mapping of the saved document.
C12_Step ==
  (/\ ConfirmStep
   /\ file.kind = "object"
   /\ ~ProjectEntry(file.doc, NormalizeCwd(path)).present) =>
    /\ file'.kind = "object"
    /\ file'.doc.projects = file.doc.projects
    /\ ~ProjectEntry(file'.doc, NormalizeCwd(path)).present
    /\ AsMap(file'.doc.mcpServers) \cup AsMap(file'.doc._disabledMcpServers)
         = PairsOf(servers, "user")

C12_NoProjectEntryCreated == [][C12_Step]_vars

C12_Witness ==
  /\ pc = "Saving"
  /\ writes = 1
  /\ HasScope(servers, "local")
  /\ file.kind = "object"
  /\ ~file.doc.projects.present
  /\ file0.doc.projects.present

\* C13: when the file cannot be read or parsed at confirm, saveState writes
\* nothing and the file stays as it is; the run still ends in Saving with
\* exit code 0.
C13_Step ==
  (ConfirmStep /\ Unreadable(file)) =>
    /\ file' = file
    /\ writes' = writes
    /\ saveCalls' = saveCalls + 1
    /\ exitCode' = 0

C13_SaveNoOpWhenUnreadable == [][C13_Step]_vars

C13_Witness ==
  /\ pc = "Saving"
  /\ exitCode = 0
  /\ saveCalls = 1
  /\ writes = 0
  /\ file.kind = "invalid"
  /\ changed # {}

\* C14: when another writer has replaced the document between load and
\* confirm, save still writes, and the saved global mappings, and the cwd
\* project entry's when it is there at save, hold exactly the entries of the
\* session with the configs read at load: nothing of what the other writer
\* put in those mappings is left.
C14_Step ==
  (ConfirmStep /\ file # file0 /\ file.kind = "object") =>
    /\ writes' = writes + 1
    /\ file'.kind = "object"
    /\ \A i \in 1..Len(servers) : servers[i].config = loaded[i].config
    /\ \A scope \in Scopes :
         Written(file, scope) =>
           /\ AsMap(ActiveOf(file', scope)) = FlaggedPairs(servers, scope, TRUE)
           /\ AsMap(DisabledOf(file', scope)) = FlaggedPairs(servers, scope, FALSE)
           /\ \A n \in Names :
                <<n, <<"ext", n>>>> \notin
                  AsMap(ActiveOf(file', scope)) \cup AsMap(DisabledOf(file', scope))

C14_ExternalChangeOverwritten == [][C14_Step]_vars

C14_Witness ==
  /\ pc = "Saving"
  /\ writes = 1
  /\ file.doc.projects.present
  /\ file.doc.projects.table[<<BS, "p">>] = OtherEntry
  /\ HasScope(servers, "local")
  /\ HasScope(servers, "user")
  /\ changed # {}


\* C15: the reader gives the failure sentinel, and the run ends as
\* ConfigUnreadable, exactly when the file is missing, unreadable or not
\* valid JSON; a file of valid JSON with no entries ({} or null, false, 0, "",
\* []) ends as EmptyConfiguration with exit code 1.
C15_UnreadableExactly ==
  /\ pc # "load" => (readJSON(file0) = NullValue <=> Unreadable(file0))
  /\ pc = "ConfigUnreadable" => Unreadable(file0)
  /\ (Unreadable(file0) /\ pc # "load") => pc = "ConfigUnreadable"
  /\ (~Unreadable(file0) /\ FirstSeenWins(file0) = <<>> /\ pc \notin {"load", "check"}) =>
       (pc = "EmptyConfiguration" /\ exitCode = 1)


UpKeys == { <<ESC, "[", "A">>, <<"k">> }
DownKeys == { <<ESC, "[", "B">>, <<"j">> }

\* C16: while Running the cursor is an index of the list, which has at least
\* one entry; down goes to the next entry and from the last to the first, up
\* to the previous entry and from the first to the last; with one entry both
\* leave it at 0.
C16_State ==
  pc = "Running" => (Len(servers) >= 1 /\ cursor \in 0..(Len(servers) - 1))

C16_Step ==
  /\ \A key \in DownKeys :
       OnData(key) =>
         /\ cursor' = IF cursor = Len(servers) - 1 THEN 0 ELSE cursor + 1
         /\ Len(servers) = 1 => cursor' = 0
  /\ \A key \in UpKeys :
       OnData(key) =>
         /\ cursor' = IF cursor = 0 THEN Len(servers) - 1 ELSE cursor - 1
         /\ Len(servers) = 1 => cursor' = 0

C16_CursorWraps == []C16_State /\ [][C16_Step]_vars

C16_Witness ==
  /\ pc = "Running"
  /\ Len(servers) = 3
  /\ cursor = 2
  /\ keySeen
  /\ changed = {}

\* The fields of the entries that are not the flag.
Shape(list) ==
  [i \in 1..Len(list) |->
     [name |-> list[i].name, source |-> list[i].source, config |-> list[i].config]]

\* C17: space flips the flag of the entry at the cursor and of no other, and
\* leaves the cursor, the names, scopes, configs, length and order of the
\* list and the file; up and down leave every flag.
C17_Step ==
  /\ OnData(<<" ">>) =>
       /\ servers'[cursor + 1].enabled = ~servers[cursor + 1].enabled
       /\ \A i \in 1..Len(servers) : i # cursor + 1 => servers'[i] = servers[i]
       /\ Len(servers') = Len(servers)
       /\ Shape(servers') = Shape(servers)
       /\ cursor' = cursor
       /\ file' = file
  /\ \A key \in UpKeys \cup DownKeys :
       OnData(key) => servers' = servers

C17_ToggleFrame == [][C17_Step]_vars

C17_Witness ==
  /\ pc = "Running"
  /\ Len(servers) = 3
  /\ cursor = 1
  /\ changed = {2}
  /\ servers[2].enabled # loaded[2].enabled
  /\ lastFlagKey = <<" ">>

\* The chunks the handler has a test for.
Recognized ==
  { <<ETX>>, <<ESC>>, <<CR>>, <<LF>>, <<" ">>, <<"a">>, <<"n">> }
  \cup UpKeys \cup DownKeys

\* C18: a chunk that is none of Ctrl-C, lone Esc, Enter, the up and down
\* arrows, j, k, space, a, n is ignored: the run stays Running and the
\* cursor, the flags and the file are unchanged.
C18_Step ==
  \A key \in Keys \ Recognized :
    OnData(key) =>
      /\ pc' = "Running"
      /\ exitCode' = exitCode
      /\ cursor' = cursor
      /\ servers' = servers
      /\ file' = file

C18_UnrecognizedIgnored == [][C18_Step]_vars

C18_Witness ==
  /\ pc = "Running"
  /\ keySeen
  /\ Len(servers) = 3
  /\ cursor = 0
  /\ servers = loaded
  /\ lastFlagKey = <<>>
  /\ Keys \ Recognized # {}


\* C19: the names of the entries are pairwise distinct over the whole list,
\* so a name of a global mapping is never a local entry too; and from load
\* to the end of the run the list keeps its length, order, names, scopes and
\* configs: only flags and the cursor change.
C19_State ==
  Loaded =>
    /\ \A i, j \in 1..Len(servers) : i # j => servers[i].name # servers[j].name
    /\ \A i \in 1..Len(servers) :
         servers[i].source = "local" =>
           servers[i].name \notin KeySet(ActiveOf(file0, "user"))
                                  \cup KeySet(DisabledOf(file0, "user"))
    /\ Shape(servers) = Shape(loaded)

C19_Step == Loaded => Shape(servers') = Shape(servers)

C19_DistinctNamesFixedList == []C19_State /\ [][C19_Step]_vars

C19_Witness ==
  /\ pc = "Saving"
  /\ Len(servers) = 2
  /\ servers[2].source = "local"
  /\ KeySet(ActiveOf(file0, "local")) \cap KeySet(DisabledOf(file0, "user")) # {}
  /\ changed = {1, 2}
  /\ cursor = 1


\* The entries of a list, as a set.
Records(list) == {list[i] : i \in 1..Len(list)}

\* What a session started on the file f holds after load, and what it writes
\* when it changes no flag and confirms.
Reloaded(f) == loadServers(readJSON(f), path)

Resaved(f) ==
  Stringify(readJSON(f).kind, SavedDoc(DocOf(readJSON(f)), Reloaded(f), path))

\* C20: after a session that ends in confirm, the loader run on the saved
\* file gives the records of the list at confirm, and a second session on
\* that file that changes no flag and confirms writes the document it read.
C20_SaveLoadFixedPoint ==
  (pc = "Saving" /\ writes = 1) =>
    /\ ~IsFalsy(readJSON(file))
    /\ Records(Reloaded(file)) = Records(servers)
    /\ Len(Reloaded(file)) = Len(servers)
    /\ Resaved(file) = file

C20_Witness ==
  /\ pc = "Saving"
  /\ writes = 1
  /\ file # file0
  /\ Len(servers) = 2
  /\ Reloaded(file) # servers
  /\ HasScope(servers, "local")
  /\ changed # {}

====
